---- MODULE Spec2Model ----
(***************************************************************************)
(* A model of zakopane: the hash-line codec (zakopane/hash.py), the sum    *)
(* file reader and the database map file (zakopane/file.py) and the diff   *)
(* of two dictified databases (cmp-zakopane.py).                           *)
(*                                                                         *)
(* Python strings are sequences of one-character strings.  A Python value  *)
(* that may be None is a sequence of length 0 (None) or 1 (the value).     *)
(* A dict is a function with a finite domain, except in the diff, where    *)
(* the iteration order of the dict is read and the dict is the sequence of *)
(* its items in insertion order.                                           *)
(***************************************************************************)
EXTENDS Integers, Sequences, FiniteSets, TLC

VARIABLES
    \* zakopane/hash.py: one formatHashLine / readHashLine exchange
    hl_pc, hl_fname, hl_hash, hl_line, hl_out, hl_exc,
    \* zakopane/file.py: one SumFile object
    sf_pc, sf_file, sf_meta, sf_when, sf_root, sf_sumDict,
    sf_exc, sf_call, sf_rv,
    \* zakopane/file.py: the DbMapFile object, its directories and its file
    dirs, persisted, obj, dbMap, dbValues, call, rv, exc,
    \* cmp-zakopane.py: two dictified databases and what print_diff printed
    diff_pc, dba, dbb, diff_out

hlVars == <<hl_pc, hl_fname, hl_hash, hl_line, hl_out, hl_exc>>
sfVars == <<sf_pc, sf_file, sf_meta, sf_when, sf_root, sf_sumDict,
            sf_exc, sf_call, sf_rv>>
regVars == <<dirs, persisted, obj, dbMap, dbValues, call, rv, exc>>
diffVars == <<diff_pc, dba, dbb, diff_out>>
vars == <<hlVars, sfVars, regVars, diffVars>>

----------------------------------------------------------------------------
(* Bounds of the model.                                                    *)

\* longest file name drawn for formatHashLine and longest short raw line
MaxNameLen == 3
\* most lines of a sum file
MaxLines == 5
\* number of configured roots and of tokens uuid4 can draw
NumRoots == 2
NumTokens == 3
\* most items of a dictified database
MaxItems == 3

----------------------------------------------------------------------------
(* Python built-ins used by the code.                                      *)

None == <<>>
Some(v) == <<v>>
EmptyDict == [k \in {} |-> k]
Range(f) == {f[k] : k \in DOMAIN f}
SeqRange(s) == {s[i] : i \in 1..Len(s)}
\* d[key] = value on a dict
DictSet(d, key, value) ==
    [k \in (DOMAIN d) \cup {key} |-> IF k = key THEN value ELSE d[k]]

\* a slice bound i of a sequence of length n, as Python normalises it
PyClamp(i, n) ==
    IF i < 0 THEN (IF i + n < 0 THEN 0 ELSE i + n)
    ELSE (IF i > n THEN n ELSE i)
\* s[:stop]
SliceTo(s, stop) == SubSeq(s, 1, PyClamp(stop, Len(s)))
\* s[start:]
SliceFrom(s, start) == SubSeq(s, PyClamp(start, Len(s)) + 1, Len(s))

\* s.find(sep) + 1: the first place sep occurs in s, 0 when it does not
Find(s, sep) ==
    LET at == {i \in 1..(Len(s) - Len(sep) + 1) :
                  SubSeq(s, i, i + Len(sep) - 1) = sep}
    IN IF at = {} THEN 0 ELSE CHOOSE i \in at : \A j \in at : i <= j

\* s.split(sep)
RECURSIVE Split(_, _)
Split(s, sep) ==
    LET i == Find(s, sep)
    IN IF i = 0 THEN <<s>>
       ELSE <<SubSeq(s, 1, i - 1)>> \o Split(SubSeq(s, i + Len(sep), Len(s)), sep)

\* sep.join(parts)
RECURSIVE Join(_, _)
Join(sep, parts) ==
    IF parts = <<>> THEN <<>>
    ELSE IF Len(parts) = 1 THEN parts[1]
    ELSE parts[1] \o sep \o Join(sep, Tail(parts))

Whitespace == {" ", "\n", "\t"}
\* s.strip(): from the first to the last character that is no whitespace
RECURSIVE FirstKept(_, _)
FirstKept(s, i) ==
    IF i > Len(s) \/ s[i] \notin Whitespace THEN i ELSE FirstKept(s, i + 1)
RECURSIVE LastKept(_, _)
LastKept(s, i) ==
    IF i < 1 \/ s[i] \notin Whitespace THEN i ELSE LastKept(s, i - 1)
Strip(s) == SubSeq(s, FirstKept(s, 1), LastKept(s, Len(s)))

\* the characters of the model in code-point order, for str.__lt__
CharOrder == <<"\t", "\n", " ", ".", "/", "1", "5", ":", "=", "R", "W",
               "a", "b", "e", "h", "j", "n", "o", "r", "t">>
Ord(c) == CHOOSE i \in 1..Len(CharOrder) : CharOrder[i] = c
\* s < t on str
RECURSIVE StrLess(_, _)
StrLess(s, t) ==
    IF t = <<>> THEN FALSE
    ELSE IF s = <<>> THEN TRUE
    ELSE IF s[1] = t[1] THEN StrLess(Tail(s), Tail(t))
    ELSE Ord(s[1]) < Ord(t[1])

\* all strings over alphabet of length at most n
StringsUpTo(alphabet, n) == UNION {[1..k -> alphabet] : k \in 0..n}

----------------------------------------------------------------------------
(* zakopane/hash.py                                                        *)

HASHLEN == 128
HASHSEP == <<" ">>
FREADTO == (0 - HASHLEN) - Len(HASHSEP)

\* digests doHashFile can return: HASHLEN characters each
Digests == {[i \in 1..HASHLEN |-> "a"],
            [i \in 1..HASHLEN |-> IF i = 1 THEN "b" ELSE "1"],
            [i \in 1..HASHLEN |-> IF i = 2 THEN " " ELSE "5"]}

\* a parse that splits at the first separator instead of by position
readHashLine_split(line) ==
    LET i == Find(line, HASHSEP)
    IN IF i = 0 THEN <<line, <<>>>>
       ELSE <<SubSeq(line, 1, i - 1), SubSeq(line, i + Len(HASHSEP), Len(line))>>

readHashLine(line) == <<SliceTo(line, FREADTO), SliceFrom(line, 0 - HASHLEN)>>

\* formatHashLine(fname), hash_ being what doHashFile(fname) returned
formatHashLine(fname, hash_) == Join(HASHSEP, <<fname, hash_>>)

NameChars == {"a", " ", "/"}
FileNames == StringsUpTo(NameChars, MaxNameLen)
\* lines handed to readHashLine that formatHashLine did not write
RawLines == StringsUpTo(NameChars, MaxNameLen) \cup Digests
              \cup {SubSeq(d, 1, HASHLEN - 1) : d \in Digests}

HlInit ==
    /\ hl_out = None
    /\ hl_exc = "none"
    /\ \/ /\ hl_pc = "format"
          /\ hl_fname \in FileNames
          /\ hl_hash \in Digests
          /\ hl_line = <<>>
       \/ /\ hl_pc = "raw"
          /\ hl_fname = <<>>
          /\ hl_hash = <<>>
          /\ hl_line \in RawLines

HlIdle ==
    /\ hl_pc = "idle" /\ hl_fname = <<>> /\ hl_hash = <<>> /\ hl_line = <<>>
    /\ hl_out = None /\ hl_exc = "none"

FormatHashLine ==
    /\ hl_pc = "format"
    /\ hl_line' = formatHashLine(hl_fname, hl_hash)
    /\ hl_pc' = "formatted"
    /\ UNCHANGED <<hl_fname, hl_hash, hl_out, hl_exc>>
    /\ UNCHANGED <<sfVars, regVars, diffVars>>

ReadHashLine ==
    /\ hl_pc \in {"formatted", "raw"}
    /\ hl_out' = Some(readHashLine(hl_line))
    /\ hl_exc' = "none"
    /\ hl_pc' = IF hl_pc = "formatted" THEN "parsed" ELSE "parsedRaw"
    /\ UNCHANGED <<hl_fname, hl_hash, hl_line>>
    /\ UNCHANGED <<sfVars, regVars, diffVars>>

----------------------------------------------------------------------------
(* zakopane/file.py: SumFile                                               *)

METASEP == [i \in 1..52 |-> "="]
METAKVSEP == <<":", " ">>
ROOT == <<"R", "o", "o", "t">>
WHEN == <<"W", "h", "e", "n">>

Digits == <<"0", "1", "2", "3", "4", "5", "6", "7", "8", "9">>
RECURSIVE DigitsVal(_)
DigitsVal(s) ==
    IF s = <<>> THEN 0
    ELSE 10 * DigitsVal(SubSeq(s, 1, Len(s) - 1))
         + (CHOOSE d \in 0..9 : Digits[d + 1] = s[Len(s)])
\* float(s) for s a plain decimal literal: Some(<<n, k>>) is n / 10^k;
\* None is the ValueError of a string that is no literal
PyFloat(s) ==
    LET dot == Find(s, <<".">>)
        whole == IF dot = 0 THEN s ELSE SubSeq(s, 1, dot - 1)
        frac == IF dot = 0 THEN <<>> ELSE SubSeq(s, dot + 1, Len(s))
        ds == whole \o frac
    IN IF ds # <<>> /\ \A i \in 1..Len(ds) : ds[i] \in SeqRange(Digits)
       THEN Some(<<DigitsVal(ds), Len(frac)>>)
       ELSE None

\* the loop of posixpath.normpath over the components of the path
RECURSIVE NormComps(_, _, _)
NormComps(comps, new, slashes) ==
    IF comps = <<>> THEN new
    ELSE LET comp == Head(comps)
             dotdot == <<".", ".">>
         IN IF comp = <<>> \/ comp = <<".">> THEN NormComps(Tail(comps), new, slashes)
            ELSE IF \/ comp # dotdot
                    \/ (slashes = 0 /\ new = <<>>)
                    \/ (new # <<>> /\ new[Len(new)] = dotdot)
                 THEN NormComps(Tail(comps), Append(new, comp), slashes)
            ELSE IF new # <<>>
                 THEN NormComps(Tail(comps), SubSeq(new, 1, Len(new) - 1), slashes)
            ELSE NormComps(Tail(comps), new, slashes)
\* os.path.normpath(path)
normpath(path) ==
    IF path = <<>> THEN <<".">>
    ELSE LET slashes == IF path[1] # "/" THEN 0
                        ELSE IF Len(path) >= 2 /\ path[2] = "/"
                                /\ ~(Len(path) >= 3 /\ path[3] = "/")
                             THEN 2 ELSE 1
             joined == Join(<<"/">>, NormComps(Split(path, <<"/">>), <<>>, slashes))
             out == [i \in 1..slashes |-> "/"] \o joined
         IN IF out = <<>> THEN <<".">> ELSE out

\* the read loop of SumFile.__init__: every line of the file, stripped
Slurp(file) == [i \in 1..Len(file) |-> Strip(file[i])]

\* the loop of _readMeta from the line at index idx (0-based) on
RECURSIVE readMetaLoop(_, _, _)
readMetaLoop(slurp, idx, metaDict) ==
    IF idx >= Len(slurp)
    THEN [exc |-> "none", pickupIndex |-> Len(slurp) - 1, metaDict |-> metaDict]
    ELSE LET line == slurp[idx + 1]
         IN IF idx = 0
            THEN IF line # METASEP
                 THEN [exc |-> "AssertionError", pickupIndex |-> idx, metaDict |-> metaDict]
                 ELSE readMetaLoop(slurp, idx + 1, metaDict)
            ELSE IF line = METASEP
            THEN [exc |-> "none", pickupIndex |-> idx + 1, metaDict |-> metaDict]
            ELSE LET kv == Split(line, METAKVSEP)
                 IN IF Len(kv) # 2
                    THEN [exc |-> "ValueError", pickupIndex |-> idx, metaDict |-> metaDict]
                    ELSE IF kv[1] \in DOMAIN metaDict
                    THEN [exc |-> "AssertionError", pickupIndex |-> idx, metaDict |-> metaDict]
                    ELSE readMetaLoop(slurp, idx + 1, DictSet(metaDict, kv[1], kv[2]))

\* _readMeta without the assertion on the first line
readMeta_anyFirstLine(slurp) ==
    IF slurp = <<>>
    THEN [exc |-> "AssertionError", pickupIndex |-> 0 - 1, metaDict |-> EmptyDict]
    ELSE readMetaLoop(slurp, 1, EmptyDict)

readMeta(slurp) ==
    IF slurp = <<>>
    THEN [exc |-> "AssertionError", pickupIndex |-> 0 - 1, metaDict |-> EmptyDict]
    ELSE readMetaLoop(slurp, 0, EmptyDict)

getMeta(metaDict) ==
    IF WHEN \notin DOMAIN metaDict
    THEN [exc |-> "KeyError", when |-> None, root |-> None]
    ELSE IF PyFloat(metaDict[WHEN]) = None
    THEN [exc |-> "ValueError", when |-> None, root |-> None]
    ELSE IF ROOT \notin DOMAIN metaDict
    THEN [exc |-> "KeyError", when |-> PyFloat(metaDict[WHEN]), root |-> None]
    ELSE [exc |-> "none", when |-> PyFloat(metaDict[WHEN]),
          root |-> Some(normpath(metaDict[ROOT]))]

\* the loop of _getSums from index i on; selfSumDict is self._sumDict, which
\* the loop assigns into, and ret is what the method returns
RECURSIVE getSumsLoop(_, _, _)
getSumsLoop(selfSumDict, i, slurp) ==
    IF ~(i < Len(slurp))
    THEN [exc |-> "none", selfSumDict |-> selfSumDict, ret |-> None]
    ELSE LET fh == readHashLine(slurp[i + 1])
         IN IF selfSumDict = None
            THEN [exc |-> "TypeError", selfSumDict |-> selfSumDict, ret |-> None]
            ELSE getSumsLoop(Some(DictSet(selfSumDict[1], fh[1], fh[2])), i + 1, slurp)

getSums(selfSumDict, pickupIndex, slurp) == getSumsLoop(selfSumDict, pickupIndex, slurp)

\* SumFile(fileName) on a file holding the lines `file`
SumFileNew(file) ==
    LET slurp == Slurp(file)
        m == readMeta(slurp)
        g == getMeta(m.metaDict)
        s == getSums(None, m.pickupIndex, slurp)
        raised(e) == [exc |-> e, meta |-> None, when |-> None, root |-> None,
                      sumDict |-> None]
    IN IF m.exc # "none" THEN raised(m.exc)
       ELSE IF g.exc # "none" THEN raised(g.exc)
       ELSE IF s.exc # "none" THEN raised(s.exc)
       ELSE [exc |-> "none", meta |-> Some(m.metaDict), when |-> g.when,
             root |-> g.root, sumDict |-> s.ret]

\* self._sumDict[key]
getitem(sumDict, key) ==
    IF sumDict = None THEN [exc |-> "TypeError", rv |-> None]
    ELSE IF key \notin DOMAIN sumDict[1] THEN [exc |-> "KeyError", rv |-> None]
    ELSE [exc |-> "none", rv |-> Some(sumDict[1][key])]

\* key in self._sumDict
contains(sumDict, key) ==
    IF sumDict = None THEN [exc |-> "TypeError", rv |-> None]
    ELSE [exc |-> "none", rv |-> Some(key \in DOMAIN sumDict[1])]

DigestA == [i \in 1..HASHLEN |-> "a"]
RootLine == ROOT \o METAKVSEP \o <<"/", "r", "/">>
WhenLine == WHEN \o METAKVSEP \o <<"1", ".", "5">>
RecordA == <<"a">> \o HASHSEP \o DigestA
JunkLine == <<"j">>
\* the lines a sum file is drawn from, each with its line ending
FileLines == {l \o <<"\n">> :
                l \in {METASEP, RootLine, WhenLine, RecordA, JunkLine}}
SumFiles == UNION {[1..n -> FileLines] : n \in 0..MaxLines}
LookupKeys == {<<"a">>, <<"b">>}

SfInit ==
    /\ sf_pc = "new"
    /\ sf_file \in SumFiles
    /\ sf_meta = None /\ sf_when = None /\ sf_root = None /\ sf_sumDict = None
    /\ sf_exc = "none" /\ sf_call = <<>> /\ sf_rv = None

SfIdle ==
    /\ sf_pc = "idle" /\ sf_file = <<>>
    /\ sf_meta = None /\ sf_when = None /\ sf_root = None /\ sf_sumDict = None
    /\ sf_exc = "none" /\ sf_call = <<>> /\ sf_rv = None

SumFile__init__ ==
    /\ sf_pc = "new"
    /\ LET r == SumFileNew(sf_file)
       IN /\ sf_pc' = IF r.exc = "none" THEN "loaded" ELSE "raised"
          /\ sf_exc' = r.exc
          /\ sf_meta' = r.meta
          /\ sf_when' = r.when
          /\ sf_root' = r.root
          /\ sf_sumDict' = r.sumDict
    /\ sf_call' = <<"__init__">>
    /\ UNCHANGED <<sf_file, sf_rv>>
    /\ UNCHANGED <<hlVars, regVars, diffVars>>

SumFile__getitem__ ==
    /\ sf_pc = "loaded"
    /\ \E key \in LookupKeys :
          LET r == getitem(sf_sumDict, key)
          IN /\ sf_call' = <<"__getitem__", key>>
             /\ sf_exc' = r.exc
             /\ sf_rv' = r.rv
    /\ UNCHANGED <<sf_pc, sf_file, sf_meta, sf_when, sf_root, sf_sumDict>>
    /\ UNCHANGED <<hlVars, regVars, diffVars>>

SumFile__contains__ ==
    /\ sf_pc = "loaded"
    /\ \E key \in LookupKeys :
          LET r == contains(sf_sumDict, key)
          IN /\ sf_call' = <<"__contains__", key>>
             /\ sf_exc' = r.exc
             /\ sf_rv' = r.rv
    /\ UNCHANGED <<sf_pc, sf_file, sf_meta, sf_when, sf_root, sf_sumDict>>
    /\ UNCHANGED <<hlVars, regVars, diffVars>>

----------------------------------------------------------------------------
(* zakopane/file.py: DbMapFile                                             *)

Roots == {<<"root", i>> : i \in 1..NumRoots}
\* the strings str(uuid.uuid4()) can return
Tokens == {<<"uuid", i>> : i \in 1..NumTokens}

\* the file dbMapFname: absent, not openable for reading, holding text that
\* is no JSON, or holding a JSON object, which is the set of its members
DocAbsent == [kind |-> "absent", members |-> {}]
DocUnreadable == [kind |-> "unreadable", members |-> {}]
DocInvalid == [kind |-> "invalid", members |-> {}]

\* json.dump(dbMap, dbMapFile) into the file opened with "w"
json_dump(m) == [kind |-> "json", members |-> {<<k, m[k]>> : k \in DOMAIN m}]
\* json.load(dbMapFile) of a file holding a JSON object
json_load(doc) ==
    [k \in {mem[1] : mem \in doc.members} |->
        (CHOOSE mem \in doc.members : mem[1] = k)[2]]

\* the dicts commit() of an earlier process can have written
WrittenMaps ==
    UNION {{m \in [ks -> Tokens] : \A j, k \in ks : m[j] = m[k] => j = k} :
              ks \in SUBSET Roots}
Docs == {DocAbsent, DocUnreadable, DocInvalid} \cup {json_dump(m) : m \in WrittenMaps}
Directories == {"ddbDir", "cfgDir"}

\* the try statement of __init__ with a bare except
DbMapFileNew_bareExcept(doc) ==
    IF doc.kind = "json"
    THEN [exc |-> "none", dbMap |-> json_load(doc), dbValues |-> Range(json_load(doc))]
    ELSE [exc |-> "none", dbMap |-> EmptyDict, dbValues |-> {}]

\* the try statement of __init__: open() raises an OSError on an absent or
\* unreadable file, json.load a ValueError (JSONDecodeError) on text that is
\* no JSON, and only (IOError, OSError) is caught
DbMapFileNew(doc) ==
    IF doc.kind \in {"absent", "unreadable"}
    THEN [exc |-> "none", dbMap |-> EmptyDict, dbValues |-> {}]
    ELSE IF doc.kind = "invalid"
    THEN [exc |-> "ValueError", dbMap |-> EmptyDict, dbValues |-> {}]
    ELSE [exc |-> "none", dbMap |-> json_load(doc), dbValues |-> Range(json_load(doc))]

\* __setitem__ without the check of the value
setitem_noValueCheck(m, vals, key, value) ==
    IF key \in DOMAIN m
    THEN [exc |-> "KeyError", dbMap |-> m, dbValues |-> vals]
    ELSE [exc |-> "none", dbMap |-> DictSet(m, key, value),
          dbValues |-> vals \cup {value}]

\* __setitem__ without the check of the key: the assignment overwrites
setitem_overwrite(m, vals, key, value) ==
    IF value \in vals
    THEN [exc |-> "KeyError", dbMap |-> m, dbValues |-> vals]
    ELSE [exc |-> "none", dbMap |-> DictSet(m, key, value),
          dbValues |-> vals \cup {value}]

\* the body of __setitem__ on self.dbMap = m and self.dbValues = vals
setitem(m, vals, key, value) ==
    IF key \in DOMAIN m
    THEN [exc |-> "KeyError", dbMap |-> m, dbValues |-> vals]
    ELSE IF value \in vals
    THEN [exc |-> "KeyError", dbMap |-> m, dbValues |-> vals]
    ELSE [exc |-> "none", dbMap |-> DictSet(m, key, value),
          dbValues |-> vals \cup {value}]

\* dryAddKeyValue that tests the key alone
dryAddKeyValue_keyOnly(m, vals, key, value) ==
    IF key \in DOMAIN m THEN 1 ELSE 0

dryAddKeyValue(m, vals, key, value) ==
    LET rv0 == 0
        rv1 == IF key \in DOMAIN m THEN rv0 + 1 ELSE rv0
        rv2 == IF value \in vals THEN rv1 + 2 ELSE rv1
    IN rv2

RegInit ==
    /\ dirs \in SUBSET Directories
    /\ persisted \in Docs
    /\ persisted # DocAbsent => "ddbDir" \in dirs
    /\ obj = "none"
    /\ dbMap = EmptyDict
    /\ dbValues = {}
    /\ call = <<"start">>
    /\ rv = None
    /\ exc = "none"

RegIdle ==
    /\ dirs = {} /\ persisted = DocAbsent /\ obj = "idle"
    /\ dbMap = EmptyDict /\ dbValues = {}
    /\ call = <<"start">> /\ rv = None /\ exc = "none"

\* DbMapFile(): a process constructs its DbMapFile object
DbMapFile__init__ ==
    /\ obj \in {"none", "live"}
    /\ dirs' = dirs \cup Directories
    /\ LET r == DbMapFileNew(persisted)
       IN /\ obj' = IF r.exc = "none" THEN "live" ELSE "none"
          /\ dbMap' = r.dbMap
          /\ dbValues' = r.dbValues
          /\ exc' = r.exc
    /\ call' = <<"__init__">>
    /\ rv' = None
    /\ UNCHANGED persisted
    /\ UNCHANGED <<hlVars, sfVars, diffVars>>

DbMapFile__getitem__(key) ==
    /\ obj = "live"
    /\ call' = <<"__getitem__", key>>
    /\ IF key \in DOMAIN dbMap
       THEN rv' = Some(dbMap[key]) /\ exc' = "none"
       ELSE rv' = None /\ exc' = "KeyError"
    /\ UNCHANGED <<dirs, persisted, obj, dbMap, dbValues>>
    /\ UNCHANGED <<hlVars, sfVars, diffVars>>

DbMapFile__contains__(key) ==
    /\ obj = "live"
    /\ call' = <<"__contains__", key>>
    /\ rv' = Some(key \in DOMAIN dbMap)
    /\ exc' = "none"
    /\ UNCHANGED <<dirs, persisted, obj, dbMap, dbValues>>
    /\ UNCHANGED <<hlVars, sfVars, diffVars>>

\* __setitem__ that also writes the file
DbMapFile__setitem__autosave(key, value) ==
    /\ obj = "live"
    /\ call' = <<"__setitem__", key, value>>
    /\ LET r == setitem(dbMap, dbValues, key, value)
       IN /\ dbMap' = r.dbMap
          /\ dbValues' = r.dbValues
          /\ exc' = r.exc
          /\ persisted' = json_dump(r.dbMap)
    /\ rv' = None
    /\ UNCHANGED <<dirs, obj>>
    /\ UNCHANGED <<hlVars, sfVars, diffVars>>

DbMapFile__setitem__(key, value) ==
    /\ obj = "live"
    /\ call' = <<"__setitem__", key, value>>
    /\ LET r == setitem(dbMap, dbValues, key, value)
       IN /\ dbMap' = r.dbMap
          /\ dbValues' = r.dbValues
          /\ exc' = r.exc
    /\ rv' = None
    /\ UNCHANGED <<dirs, persisted, obj>>
    /\ UNCHANGED <<hlVars, sfVars, diffVars>>

DbMapFile_dryAddKeyValue(key, value) ==
    /\ obj = "live"
    /\ call' = <<"dryAddKeyValue", key, value>>
    /\ rv' = Some(dryAddKeyValue(dbMap, dbValues, key, value))
    /\ exc' = "none"
    /\ UNCHANGED <<dirs, persisted, obj, dbMap, dbValues>>
    /\ UNCHANGED <<hlVars, sfVars, diffVars>>

\* add(key), value being what str(uuid.uuid4()) returned
DbMapFile_add(key, value) ==
    /\ obj = "live"
    /\ call' = <<"add", key, value>>
    /\ LET r == setitem(dbMap, dbValues, key, value)
       IN /\ dbMap' = r.dbMap
          /\ dbValues' = r.dbValues
          /\ exc' = r.exc
    /\ rv' = None
    /\ UNCHANGED <<dirs, persisted, obj>>
    /\ UNCHANGED <<hlVars, sfVars, diffVars>>

DbMapFile_commit ==
    /\ obj = "live"
    /\ call' = <<"commit">>
    /\ persisted' = json_dump(dbMap)
    /\ rv' = Some(0)
    /\ exc' = "none"
    /\ UNCHANGED <<dirs, obj, dbMap, dbValues>>
    /\ UNCHANGED <<hlVars, sfVars, diffVars>>

----------------------------------------------------------------------------
(* cmp-zakopane.py                                                         *)

\* a dict as the sequence of its items, in insertion order
Keys(d) == {d[i][1] : i \in 1..Len(d)}
Get(d, key) == d[CHOOSE i \in 1..Len(d) : d[i][1] = key][2]

\* sorted(list) of strings: insertion of the head into the sorted tail
RECURSIVE Insert(_, _)
Insert(x, s) ==
    IF s = <<>> THEN <<x>>
    ELSE IF StrLess(s[1], x) THEN <<s[1]>> \o Insert(x, Tail(s))
    ELSE <<x>> \o s
RECURSIVE Sorted(_)
Sorted(s) == IF s = <<>> THEN <<>> ELSE Insert(Head(s), Sorted(Tail(s)))

\* the list comprehension of print_diff
DiffList(a, b) ==
    LET changed(kv) == kv[1] \in Keys(b) /\ Get(b, kv[1]) # kv[2]
        items == SelectSeq(a, changed)
    IN [i \in 1..Len(items) |-> items[i][1]]

\* print_diff without diff.sort()
print_diff_unsorted(a, b) == DiffList(a, b)

\* the lines print_diff(dba, dbb) prints
print_diff(a, b) == Sorted(DiffList(a, b))

DiffPaths == {<<"a">>, <<"a", "b">>, <<"b">>, <<"/", "a">>}
Checksums == {<<"1">>, <<"5">>}
DiffItems == DiffPaths \X Checksums
\* the dicts dictify_zf can return
DiffDicts ==
    UNION {{d \in [1..n -> DiffItems] :
               \A i, j \in 1..n : d[i][1] = d[j][1] => i = j} : n \in 0..MaxItems}

DiffInit ==
    /\ diff_pc = "dictified"
    /\ dba \in DiffDicts
    /\ dbb \in DiffDicts
    /\ diff_out = <<>>

DiffIdle == diff_pc = "idle" /\ dba = <<>> /\ dbb = <<>> /\ diff_out = <<>>

PrintDiff ==
    /\ diff_pc = "dictified"
    /\ diff_out' = print_diff(dba, dbb)
    /\ diff_pc' = "printed"
    /\ UNCHANGED <<dba, dbb>>
    /\ UNCHANGED <<hlVars, sfVars, regVars>>

----------------------------------------------------------------------------
(* Specifications.                                                         *)

HashLineInit == HlInit /\ SfIdle /\ RegIdle /\ DiffIdle
HashLineNext == FormatHashLine \/ ReadHashLine
SpecHashLine == HashLineInit /\ [][HashLineNext]_vars

SumFileNext == SumFile__init__ \/ SumFile__getitem__ \/ SumFile__contains__
SumFileInit == HlIdle /\ SfInit /\ RegIdle /\ DiffIdle
SpecSumFile == SumFileInit /\ [][SumFileNext]_vars

RegistryNext ==
    \/ DbMapFile__init__
    \/ \E key \in Roots : DbMapFile__getitem__(key)
    \/ \E key \in Roots : DbMapFile__contains__(key)
    \/ \E key \in Roots, value \in Tokens : DbMapFile__setitem__(key, value)
    \/ \E key \in Roots, value \in Tokens : DbMapFile_dryAddKeyValue(key, value)
    \/ \E key \in Roots, value \in Tokens : DbMapFile_add(key, value)
    \/ DbMapFile_commit
RegistryInit == HlIdle /\ SfIdle /\ RegInit /\ DiffIdle
SpecRegistry == RegistryInit /\ [][RegistryNext]_vars

DiffNext == PrintDiff
DiffSpecInit == HlIdle /\ SfIdle /\ RegIdle /\ DiffInit
SpecDiff == DiffSpecInit /\ [][DiffNext]_vars

----------------------------------------------------------------------------
(* Properties.                                                             *)

\* C7: for every path without a newline (the empty path and paths holding or
\* ending in the separator included) and every digest of HASHLEN characters,
\* readHashLine(path + HASHSEP + digest) is exactly (path, digest): the digest
\* is the last HASHLEN characters of the line and the path is everything
\* before the last HASHLEN + len(HASHSEP) characters.
C7_RoundTrip ==
    hl_pc = "parsed" =>
        /\ hl_out = Some(<<hl_fname, hl_hash>>)
        /\ hl_out[1][1] = SubSeq(hl_line, 1, Len(hl_line) - HASHLEN - Len(HASHSEP))
        /\ hl_out[1][2] = SubSeq(hl_line, Len(hl_line) - HASHLEN + 1, Len(hl_line))

\* a path that holds the separator twice, once at its end, came back whole
C7_Witness ==
    /\ hl_pc = "parsed"
    /\ hl_fname = <<" ", "a", " ">>
    /\ hl_out = Some(<<hl_fname, hl_hash>>)

\* C10: readHashLine fails with a malformed-record error on every line
\* shorter than HASHLEN + len(HASHSEP) characters and returns no pair for it.
C10_ShortLineRejected ==
    (hl_pc = "parsedRaw" /\ Len(hl_line) < HASHLEN + Len(HASHSEP)) =>
        (hl_exc # "none" /\ hl_out = None)

\* C6: print_diff(dba, dbb) prints exactly the keys of both dicts whose values
\* differ, each once, in ascending lexicographic order; a key of one dict only
\* is never printed, and print_diff(dbb, dba) prints the same set of keys.
C6_Diff ==
    diff_pc = "printed" =>
        LET changed == {p \in Keys(dba) \cap Keys(dbb) : Get(dba, p) # Get(dbb, p)}
        IN /\ SeqRange(diff_out) = changed
           /\ Len(diff_out) = Cardinality(changed)
           /\ \A i \in 1..(Len(diff_out) - 1) : StrLess(diff_out[i], diff_out[i + 1])
           /\ SeqRange(print_diff(dbb, dba)) = SeqRange(diff_out)

\* two changed keys that dba holds in descending order, beside a key of dba
\* alone and a key of dbb alone
C6_Witness ==
    /\ diff_pc = "printed"
    /\ diff_out = << <<"a">>, <<"a", "b">> >>
    /\ Len(dba) = 3 /\ dba[1][1] = <<"a", "b">> /\ dba[2][1] = <<"a">>
    /\ dba[3][1] \notin Keys(dbb)
    /\ \E p \in Keys(dbb) : p \notin Keys(dba)

\* the header of a stripped sum file, as the format states it
FirstIsSentinel(slurp) == slurp # <<>> /\ slurp[1] = METASEP
Closed(slurp) == \E i \in 2..Len(slurp) : slurp[i] = METASEP
ClosingAt(slurp) ==
    CHOOSE i \in 2..Len(slurp) :
        slurp[i] = METASEP /\ \A j \in 2..(i - 1) : slurp[j] # METASEP
\* the key of a header line: the text before its first ": "
KeyOf(line) ==
    IF Find(line, METAKVSEP) = 0 THEN line
    ELSE SubSeq(line, 1, Find(line, METAKVSEP) - 1)
HeaderKeys(slurp) == {KeyOf(slurp[i]) : i \in 2..(ClosingAt(slurp) - 1)}
KeyTwice(slurp) ==
    /\ FirstIsSentinel(slurp) /\ Closed(slurp)
    /\ \E i, j \in 2..(ClosingAt(slurp) - 1) :
          i < j /\ KeyOf(slurp[i]) = KeyOf(slurp[j])
RequiredMissing(slurp) ==
    /\ FirstIsSentinel(slurp) /\ Closed(slurp)
    /\ ROOT \notin HeaderKeys(slurp) \/ WHEN \notin HeaderKeys(slurp)

\* C8: SumFile(fileName) raises, and leaves no SumFile, when the file has no
\* lines, when its first line is not METASEP, when a key occurs twice between
\* the two METASEP lines, and when Root or When is missing from the header
\* that the closing METASEP ends.
C8_Rejects ==
    sf_pc # "new" =>
        LET slurp == Slurp(sf_file)
        IN /\ (slurp = <<>> \/ ~FirstIsSentinel(slurp))
                => (sf_pc = "raised" /\ sf_exc = "AssertionError")
           /\ (KeyTwice(slurp) \/ RequiredMissing(slurp))
                => (sf_pc = "raised"
                    /\ sf_exc \in {"AssertionError", "KeyError", "ValueError"})
           /\ sf_pc = "raised"
                => (sf_meta = None /\ sf_when = None /\ sf_root = None
                    /\ sf_sumDict = None)

\* a header that holds Root twice, and When, was rejected for the second Root
C8_Witness ==
    /\ sf_pc = "raised"
    /\ sf_exc = "AssertionError"
    /\ KeyTwice(Slurp(sf_file))
    /\ ~RequiredMissing(Slurp(sf_file))

\* a well-formed sum file: METASEP, the header lines with Root and When once
\* each, METASEP, then record lines
WellFormed(slurp) ==
    /\ FirstIsSentinel(slurp) /\ Closed(slurp)
    /\ ~KeyTwice(slurp) /\ ~RequiredMissing(slurp)
    /\ \A i \in 2..(ClosingAt(slurp) - 1) : Len(Split(slurp[i], METAKVSEP)) = 2
    /\ \A i \in (ClosingAt(slurp) + 1)..Len(slurp) :
          Len(slurp[i]) >= HASHLEN + Len(HASHSEP)
RecordLines(slurp) == {slurp[i] : i \in (ClosingAt(slurp) + 1)..Len(slurp)}
PathOf(line) == SubSeq(line, 1, Len(line) - HASHLEN - Len(HASHSEP))
DigestOf(line) == SubSeq(line, Len(line) - HASHLEN + 1, Len(line))

\* C9: SumFile(fileName) on a well-formed sum file succeeds with a records
\* mapping that holds exactly the paths of the lines after the closing
\* METASEP, each with its line's digest, so that every such path is contained
\* and looked up to its digest, and any other path is not found (KeyError).
C9_LoadsRecords ==
    (sf_pc # "new" /\ WellFormed(Slurp(sf_file))) =>
        LET lines == RecordLines(Slurp(sf_file))
        IN /\ sf_pc = "loaded"
           /\ sf_sumDict # None
           /\ DOMAIN sf_sumDict[1] = {PathOf(l) : l \in lines}
           /\ \A l \in lines :
                 /\ contains(sf_sumDict, PathOf(l)).rv = Some(TRUE)
                 /\ \E m \in lines :
                       /\ PathOf(m) = PathOf(l)
                       /\ getitem(sf_sumDict, PathOf(l)).rv = Some(DigestOf(m))
           /\ \A k \in LookupKeys \ {PathOf(l) : l \in lines} :
                 getitem(sf_sumDict, k).exc = "KeyError"

\* C1: in every state of a DbMapFile that __init__ constructed and any
\* __setitem__, add, dryAddKeyValue and commit calls changed, dbMap is
\* one-to-one: no two different keys map to the same value (and a key is
\* held once).
C1_OneToOne ==
    obj = "live" =>
        /\ \A j, k \in DOMAIN dbMap : dbMap[j] = dbMap[k] => j = k
        /\ Cardinality(DOMAIN dbMap) = Cardinality(Range(dbMap))

\* a registry of two entries has refused a value that another key maps to
C1_Witness ==
    /\ obj = "live"
    /\ Cardinality(DOMAIN dbMap) = 2
    /\ call[1] \in {"__setitem__", "add"}
    /\ exc = "KeyError"
    /\ call[3] \in Range(dbMap)

\* C2: __setitem__(key, value) raises its conflict error (KeyError) exactly
\* when key is in dbMap or some key of dbMap maps to value, and then leaves
\* dbMap and dbValues as they were; otherwise it adds key -> value to dbMap and
\* value to dbValues.  After a successful add(key), __setitem__ of that key
\* with any value, and of any key with the value add generated, raises.
C2_SetConflict ==
    [][
        /\ call'[1] = "__setitem__" =>
              LET key == call'[2]
                  value == call'[3]
                  conflict == key \in DOMAIN dbMap
                              \/ \E k \in DOMAIN dbMap : dbMap[k] = value
              IN IF conflict
                 THEN exc' = "KeyError" /\ dbMap' = dbMap /\ dbValues' = dbValues
                 ELSE /\ exc' = "none"
                      /\ dbMap' = [k \in (DOMAIN dbMap) \cup {key} |->
                                      IF k = key THEN value ELSE dbMap[k]]
                      /\ dbValues' = dbValues \cup {value}
        /\ (call[1] = "add" /\ exc = "none" /\ call'[1] = "__setitem__"
            /\ (call'[2] = call[2] \/ call'[3] = call[3]))
              => exc' = "KeyError"
    ]_vars

\* __setitem__ of another key with the value add generated was refused
C2_Witness ==
    /\ call[1] = "__setitem__"
    /\ exc = "KeyError"
    /\ call[2] \notin DOMAIN dbMap
    /\ call[3] \in Range(dbMap)

\* C3: dryAddKeyValue(key, value) returns 0 when neither key nor value is
\* present, 1 when only the key is, 2 when only the value is mapped to, 3 when
\* both are, and changes nothing; it returns 0 exactly when the __setitem__ of
\* the same key and value that follows it at once succeeds.
C3_DryCheck ==
    [][
        /\ call'[1] = "dryAddKeyValue" =>
              LET keyIn == call'[2] \in DOMAIN dbMap
                  valueIn == \E k \in DOMAIN dbMap : dbMap[k] = call'[3]
              IN /\ rv' = Some(CASE ~keyIn /\ ~valueIn -> 0
                                 [] keyIn /\ ~valueIn -> 1
                                 [] ~keyIn /\ valueIn -> 2
                                 [] keyIn /\ valueIn -> 3)
                 /\ exc' = "none"
                 /\ UNCHANGED <<dirs, persisted, obj, dbMap, dbValues>>
        /\ (call[1] = "dryAddKeyValue" /\ call'[1] = "__setitem__"
            /\ call'[2] = call[2] /\ call'[3] = call[3])
              => (rv = Some(0) <=> exc' = "none")
    ]_vars

\* a dry check found the value alone in conflict
C3_Witness ==
    /\ call[1] = "dryAddKeyValue"
    /\ rv = Some(2)
    /\ call[2] \notin DOMAIN dbMap

\* C4: only commit() changes the file dbMapFname, and commit() leaves in it
\* the whole of dbMap and nothing else; __init__, __getitem__, __contains__,
\* __setitem__, add and dryAddKeyValue leave the file as it was, so the file
\* holds dbMap as of the last commit() (or what it held before any).
C4_CommitOnly ==
    [][
        IF call'[1] = "commit"
        THEN /\ persisted' = [kind |-> "json",
                              members |-> {<<k, dbMap[k]>> : k \in DOMAIN dbMap}]
             /\ dbMap' = dbMap
        ELSE persisted' = persisted
    ]_vars

\* an entry was added after the file was written and the file lacks it
C4_Witness ==
    /\ call[1] \in {"__setitem__", "add"}
    /\ exc = "none"
    /\ persisted.kind = "json"
    /\ <<call[2], call[3]>> \notin persisted.members
    /\ dbMap[call[2]] = call[3]

\* C5 as stated: DbMapFile() never fails; when the file is absent, unreadable
\* or holds text that is no JSON, it yields an empty registry.
C5_LoadNeverFails ==
    call[1] = "__init__" =>
        /\ exc = "none"
        /\ persisted.kind # "json" =>
              (obj = "live" /\ dbMap = EmptyDict /\ dbValues = {})

\* C5 amended: DbMapFile() yields an empty registry, and no error, when the
\* file is absent or cannot be opened; when the file holds text that is no
\* JSON it raises the ValueError of json.load and constructs no registry.
C5_LoadSoftFail ==
    call[1] = "__init__" =>
        /\ persisted.kind \in {"absent", "unreadable"} =>
              (exc = "none" /\ obj = "live" /\ dbMap = EmptyDict /\ dbValues = {})
        /\ persisted.kind = "invalid" => (exc = "ValueError" /\ obj = "none")

\* the first run: no file, no data directory before, an empty registry after
C5_Witness ==
    /\ call[1] = "__init__"
    /\ persisted.kind = "absent"
    /\ obj = "live"
    /\ dbMap = EmptyDict /\ dbValues = {}
    /\ dirs = Directories

====
